---- MODULE Spec2Model ----
(***************************************************************************)
(* A model of the WordSearch class of src/src/word-search.ts: one instance *)
(* (its fields), the caller's calls on it (constructor, generate, the      *)
(* queries, export, import) and the references the caller keeps to the     *)
(* values those calls returned.                                            *)
(*                                                                         *)
(* A word is a sequence of one-character strings.  A grid is a sequence of *)
(* rows, a row a sequence of cells, a cell "" (empty) or one character.    *)
(* A Position is a record [x, y] with the source's 0-based coordinates:    *)
(* the cell grid[pos.x][pos.y] of the source is grid[pos.x+1][pos.y+1].    *)
(***************************************************************************)
EXTENDS Integers, Sequences, FiniteSets, TLC

(* ------------------------------ bounds -------------------------------- *)

\* the largest explicit size option the model draws (sizes 0..MaxSize)
MaxSize == 2

\* the longest word list the model draws
MaxWords == 2

\* The attempt budget of placeWordWithBestFit.  The source's budget is 300
\* (word-search.ts:195); the loop is modelled attempt by attempt and the
\* model runs it with this smaller budget.
maxAttempts == 2

\* the longest list of long words the model passes to the constructor
MaxLongWords == 5

\* the words a caller may pass to the constructor: a word of two letters,
\* its lower-case spelling, a word of one letter that can share a cell with
\* it, and a word with a character that is not a letter
Vocabulary == { <<"A", "B">>, <<"a", "b">>, <<"B">>, <<"A", "!">> }

\* A value that may be absent is a sequence: <<>> when it is undefined or
\* null, <<v>> when it is the value v.
Undefined == <<>>
Null == <<>>
Some(v) == <<v>>

(* ------------------------------ strings ------------------------------- *)

\* String.prototype.toUpperCase on one character (the model's alphabet)
UpperChar(c) ==
    IF c = "a" THEN "A" ELSE IF c = "b" THEN "B" ELSE IF c = "z" THEN "Z" ELSE c

\* String.prototype.toUpperCase
toUpperCase(w) == [i \in 1..Len(w) |-> UpperChar(w[i])]

\* one character of the class [A-Za-z] (the model's alphabet)
IsLetter(c) == c \in {"A", "B", "Z", "a", "b", "z"}

\* /^[A-Za-z]+$/.test(word)
MatchesAlpha(w) == Len(w) >= 1 /\ \A i \in 1..Len(w) : IsLetter(w[i])

\* the letters of 'ABCDEFGHIJKLMNOPQRSTUVWXYZ'
AZ ==
    {"A", "B", "C", "D", "E", "F", "G", "H", "I", "J", "K", "L", "M",
     "N", "O", "P", "Q", "R", "S", "T", "U", "V", "W", "X", "Y", "Z"}

\* the letters fillEmptySpaces draws from; the model draws from one of the
\* source's 26, a letter that occurs in no word
letters == {"Z"}

\* the sum of a sequence of numbers (Array.prototype.reduce with +)
RECURSIVE SumLen(_)
SumLen(ws) == IF ws = <<>> THEN 0 ELSE Len(Head(ws)) + SumLen(Tail(ws))

\* Math.ceil(a / b) for a >= 0, b > 0
CeilDiv(a, b) == (a + b - 1) \div b

\* Math.max
Max(a, b) == IF a >= b THEN a ELSE b

\* the sequences over S of length at most n
SeqsUpTo(S, n) == UNION { [1..k -> S] : k \in 0..n }

\* the permutations of a sequence (all the orders a shuffle can produce)
Perms(s) ==
    { [i \in 1..Len(s) |-> s[f[i]]] :
        f \in { g \in [1..Len(s) -> 1..Len(s)] :
                  \A i, j \in 1..Len(s) : g[i] = g[j] => i = j } }

\* a Map with no entries
EmptyMap == [w \in {} |-> <<>>]

\* Map.prototype.set
MapSet(m, k, v) == [w \in (DOMAIN m) \cup {k} |-> IF w = k THEN v ELSE m[w]]

(* ------------------------------- state -------------------------------- *)

VARIABLES
    pc,             \* "new": not yet constructed; "dead": the constructor
                    \* threw; "idle": between calls; "search": generate() is
                    \* inside placeWordWithBestFit; "placed": generate() has
                    \* placed every word
    size,           \* this.size
    words,          \* this.words
    allowDiagonal,  \* this.allowDiagonal
    fillBlanks,     \* this.fillBlanks
    grid,           \* the contents of the array this.grid refers to
    positions,      \* the contents of the Map this.positions refers to
    shuffledWords,  \* generate's local shuffledWords, from the word the
                    \* for-of loop is at to the last
    attempts,       \* placeWordWithBestFit's local attempts
    bestScore,      \* placeWordWithBestFit's local bestScore
    bestPosition,   \* placeWordWithBestFit's local bestPosition
    bestDirection,  \* placeWordWithBestFit's local bestDirection
    earliestBest,   \* history of the loop of placeWordWithBestFit: of the
                    \* candidates sampled so far that canPlaceWordAt accepts,
                    \* the earliest one with the greatest score, or none
    ret,            \* the last call (or the caller's write): its name, its
                    \* argument, the error it threw, the word the error names
    held,           \* the value the last call returned, as the caller holds
                    \* it: which of its parts are the instance's own objects
    written         \* the caller has written into an object of the instance
                    \* that the instance still uses

config == <<size, words, allowDiagonal, fillBlanks>>
locals == <<shuffledWords, attempts, bestScore, bestPosition, bestDirection, earliestBest>>
vars == <<pc, size, words, allowDiagonal, fillBlanks, grid, positions,
          shuffledWords, attempts, bestScore, bestPosition,
          bestDirection, earliestBest, ret, held, written>>

\* -Infinity: below every score (a score is a count, at least 0)
NegInfinity == -1

\* the error messages
ErrNone == "none"
ErrEmptyWords == "Words array cannot be empty"
ErrCouldNotPlace == "Could not place word"
ErrSize == "Grid size must be positive"
ErrTooLong == "Word is longer than grid size"
ErrInvalidChars == "Word contains invalid characters"
ErrGridFormat == "Invalid grid format. Grid must be a 2D array."
ErrGridDimensions == "Invalid grid dimensions"
ErrMismatched == "Grid contains mismatched word placements"
ErrTypeError == "TypeError"

\* the record of a call: its name, its argument, the error it threw ("none"
\* when it returned), the word the error names
Ret(op, arg, err, word) == [op |-> op, arg |-> arg, err |-> err, word |-> word]

\* the caller holds nothing of the instance
HeldNone == [from |-> "none", grid |-> "none", map |-> "none", lists |-> "none", word |-> Null]

\* What a call hands to the caller.  A part is "live" when it is an object
\* of the instance itself, "copy" when it is a new object, "none" when the
\* value has no such part.  The position lists are the arrays in the Map and
\* the Position objects in them.

\* generate returns this.grid
ReturnOfGenerate ==
    [from |-> "generate", grid |-> "live", map |-> "none", lists |-> "none", word |-> Null]

\* getGrid returns this.grid.map((row) => [...row])
ReturnOfGetGrid ==
    [from |-> "getGrid", grid |-> "copy", map |-> "none", lists |-> "none", word |-> Null]

\* getPositions returns new Map(this.positions): a new Map of the same arrays
ReturnOfGetPositions ==
    [from |-> "getPositions", grid |-> "none", map |-> "copy", lists |-> "live", word |-> Null]

\* getWordPositions returns this.positions.get(...): the array in the Map
ReturnOfGetWordPositions(w) ==
    [from |-> "getWordPositions", grid |-> "none", map |-> "none", lists |-> "live",
     word |-> Some(toUpperCase(w))]

\* export returns the row-by-row copy of the grid and new Map(this.positions)
ReturnOfExport ==
    [from |-> "export", grid |-> "copy", map |-> "copy", lists |-> "live", word |-> Null]

\* after import the instance's Map is new Map(positions): the arrays of the
\* Map the caller passed, which the caller still has
HeldAfterImport ==
    [from |-> "import", grid |-> "copy", map |-> "copy", lists |-> "live", word |-> Null]

\* the locals of generate and placeWordWithBestFit outside a call
NoLocals ==
    /\ shuffledWords' = <<>>
    /\ attempts' = 0
    /\ bestScore' = NegInfinity
    /\ bestPosition' = Null
    /\ bestDirection' = Null
    /\ earliestBest' = Null

(* ---------------------------- construction ---------------------------- *)

\* a ?? b
Coalesce(a, b) == IF a = Undefined THEN b ELSE a[1]

\* a bug calculateGridSize could have: the minimum of 10 is left out
calculateGridSizeNoMinimum(ws) == CeilDiv(SumLen(ws), 5)

\* a bug calculateGridSize could have: the quotient is rounded down
calculateGridSizeFloor(ws) == Max(SumLen(ws) \div 5, 10)

\* calculateGridSize
calculateGridSize(ws) == Max(CeilDiv(SumLen(ws), 5), 10)

\* a bug validateOptions could have: the characters are not checked
validateWordLengthOnly(sz, w) ==
    IF Len(w) > sz THEN ErrTooLong ELSE ErrNone

\* the check validateOptions makes of one word
validateWord(sz, w) ==
    IF Len(w) > sz THEN ErrTooLong
    ELSE IF ~MatchesAlpha(w) THEN ErrInvalidChars
    ELSE ErrNone

\* validateOptions: the error it throws and the word the error names
validateOptions(sz, ws) ==
    IF sz < 1 THEN [err |-> ErrSize, word |-> Null]
    ELSE IF \E i \in 1..Len(ws) : validateWord(sz, ws[i]) # ErrNone
    THEN LET i == CHOOSE k \in 1..Len(ws) :
                     /\ validateWord(sz, ws[k]) # ErrNone
                     /\ \A j \in 1..(k - 1) : validateWord(sz, ws[j]) = ErrNone
         IN  [err |-> validateWord(sz, ws[i]), word |-> Some(ws[i])]
    ELSE [err |-> ErrNone, word |-> Null]

\* createEmptyGrid
createEmptyGrid(sz) == [x \in 1..sz |-> [y \in 1..sz |-> ""]]

\* new WordSearch(opts)
Construct(opts) ==
    /\ pc = "new"
    /\ LET ws == [i \in 1..Len(opts.words) |-> toUpperCase(opts.words[i])]
           sz == Coalesce(opts.size, calculateGridSize(ws))
           v  == validateOptions(sz, ws)
       IN  /\ words' = ws
           /\ allowDiagonal' = Coalesce(opts.allowDiagonal, FALSE)
           /\ fillBlanks' = Coalesce(opts.fillBlanks, TRUE)
           /\ size' = sz
           /\ ret' = Ret("constructor", Some(opts), v.err, v.word)
           /\ IF v.err = ErrNone
              THEN /\ grid' = createEmptyGrid(sz)
                   /\ positions' = EmptyMap
                   /\ pc' = "idle"
              ELSE /\ UNCHANGED <<grid, positions>>
                   /\ pc' = "dead"
    /\ UNCHANGED <<locals, held, written>>

(* ------------------------------ generate ------------------------------ *)

\* isValidPosition
isValidPosition(pos) == pos.x >= 0 /\ pos.x < size /\ pos.y >= 0 /\ pos.y < size

\* a bug getAvailableDirections could have: diagonal is always offered
getAvailableDirectionsAll == <<"horizontal", "vertical", "diagonal">>

\* getAvailableDirections
getAvailableDirections ==
    IF allowDiagonal THEN <<"horizontal", "vertical", "diagonal">>
    ELSE <<"horizontal", "vertical">>

\* getNextPosition
getNextPosition(start, index, direction) ==
    CASE direction = "horizontal" -> [x |-> start.x, y |-> start.y + index]
      [] direction = "vertical"   -> [x |-> start.x + index, y |-> start.y]
      [] direction = "diagonal"   -> [x |-> start.x + index, y |-> start.y + index]
      [] OTHER                    -> start

\* g[pos.x][pos.y] for a position inside the grid g
At(g, pos) == g[pos.x + 1][pos.y + 1]

\* calculatePlacementScore: the cells of the candidate that are in the grid
\* and empty
calculatePlacementScore(word, position, direction) ==
    Cardinality({ i \in 0..(Len(word) - 1) :
        LET pos == getNextPosition(position, i, direction)
        IN  isValidPosition(pos) /\ At(grid, pos) = "" })

\* a bug canPlaceWordAt could have: the letter in the cell is not compared
canPlaceWordAtInBounds(g, word, start, direction) ==
    \A i \in 0..(Len(word) - 1) : isValidPosition(getNextPosition(start, i, direction))

\* canPlaceWordAt on the grid g
canPlaceWordAtOn(g, word, start, direction) ==
    \A i \in 0..(Len(word) - 1) :
        LET pos == getNextPosition(start, i, direction)
        IN  /\ isValidPosition(pos)
            /\ ~(At(g, pos) # "" /\ At(g, pos) # word[i + 1])

\* canPlaceWordAt
canPlaceWordAt(word, start, direction) == canPlaceWordAtOn(grid, word, start, direction)

\* a bug insertWord could have: positions.push(start) for every letter
insertPositionsOfStart(word, start, direction) ==
    [i \in 1..Len(word) |-> start]

\* insertWord: the positions it pushes, which it sets in the Map
insertPositions(word, start, direction) ==
    [i \in 1..Len(word) |-> getNextPosition(start, i - 1, direction)]

\* insertWord: the grid after its writes (a later letter of the word is
\* written over an earlier one in the same cell)
insertLetters(g, word, start, direction) ==
    [x \in 1..Len(g) |-> [y \in 1..Len(g[x]) |->
        LET here == { i \in 0..(Len(word) - 1) :
                        getNextPosition(start, i, direction) = [x |-> x - 1, y |-> y - 1] }
        IN  IF here = {} THEN g[x][y]
            ELSE word[(CHOOSE i \in here : \A j \in here : j <= i) + 1]]]

\* a bug reset could have: the grid is emptied and the Map is kept
resetOfGridOnly ==
    /\ grid' = createEmptyGrid(size)
    /\ positions' = positions

\* a bug reset could have: the Map is cleared and the grid is kept
resetOfMapOnly ==
    /\ grid' = grid
    /\ positions' = EmptyMap

\* reset
reset ==
    /\ grid' = createEmptyGrid(size)
    /\ positions' = EmptyMap

\* generate(), lines 28-35: reset, the check of the word list, the shuffle.
\* The old grid and the old position lists are dropped by reset, so what the
\* caller holds of them is no longer part of the instance.
GenerateBegin ==
    /\ pc = "idle"
    /\ reset
    /\ held' = HeldNone
    /\ written' = FALSE
    /\ IF Len(words) = 0
       THEN /\ ret' = Ret("generate", Null, ErrEmptyWords, Null)
            /\ pc' = "idle"
            /\ UNCHANGED locals
       ELSE /\ \E sh \in Perms(words) : shuffledWords' = sh
            /\ attempts' = 0
            /\ bestScore' = NegInfinity
            /\ bestPosition' = Null
            /\ bestDirection' = Null
            /\ earliestBest' = Null
            /\ ret' = Ret("generate", Null, "running", Null)
            /\ pc' = "search"
    /\ UNCHANGED <<config>>

\* the word placeWordWithBestFit is placing
word == Head(shuffledWords)

\* the history after one more sampled candidate
Sampled(seen, position, direction, score, feasible) ==
    IF feasible /\ (seen = Null \/ score > seen[1].score)
    THEN Some([score |-> score, position |-> position, direction |-> direction])
    ELSE seen

\* a bug placeWordWithBestFit could have: score >= bestScore, so that of
\* two candidates with the same score the later one is kept
AttemptTiesToLatest ==
    /\ pc = "search"
    /\ attempts < maxAttempts
    /\ \E d \in 1..Len(getAvailableDirections), x \in 0..(size - 1), y \in 0..(size - 1) :
          LET randomDirection == getAvailableDirections[d]
              randomPosition == [x |-> x, y |-> y]
              score == calculatePlacementScore(word, randomPosition, randomDirection)
              feasible == canPlaceWordAt(word, randomPosition, randomDirection)
          IN  /\ IF score >= bestScore /\ feasible
                 THEN /\ bestScore' = score
                      /\ bestPosition' = Some(randomPosition)
                      /\ bestDirection' = Some(randomDirection)
                 ELSE UNCHANGED <<bestScore, bestPosition, bestDirection>>
              /\ earliestBest' = Sampled(earliestBest, randomPosition, randomDirection, score, feasible)
    /\ attempts' = attempts + 1
    /\ UNCHANGED <<pc, config, grid, positions, shuffledWords, ret, held, written>>

\* placeWordWithBestFit, lines 198-213: one turn of the loop
Attempt ==
    /\ pc = "search"
    /\ attempts < maxAttempts
    /\ \E d \in 1..Len(getAvailableDirections), x \in 0..(size - 1), y \in 0..(size - 1) :
          LET randomDirection == getAvailableDirections[d]
              randomPosition == [x |-> x, y |-> y]
              score == calculatePlacementScore(word, randomPosition, randomDirection)
              feasible == canPlaceWordAt(word, randomPosition, randomDirection)
          IN  /\ IF score > bestScore /\ feasible
                 THEN /\ bestScore' = score
                      /\ bestPosition' = Some(randomPosition)
                      /\ bestDirection' = Some(randomDirection)
                 ELSE UNCHANGED <<bestScore, bestPosition, bestDirection>>
              /\ earliestBest' = Sampled(earliestBest, randomPosition, randomDirection, score, feasible)
    /\ attempts' = attempts + 1
    /\ UNCHANGED <<pc, config, grid, positions, shuffledWords, ret, held, written>>

\* placeWordWithBestFit, lines 215-218, and generate's loop, lines 37-42:
\* the best candidate is inserted and the next word is taken
PlaceWord ==
    /\ pc = "search"
    /\ attempts = maxAttempts
    /\ bestPosition # Null /\ bestDirection # Null
    /\ grid' = insertLetters(grid, word, bestPosition[1], bestDirection[1])
    /\ positions' = MapSet(positions, word, insertPositions(word, bestPosition[1], bestDirection[1]))
    /\ shuffledWords' = Tail(shuffledWords)
    /\ pc' = IF Tail(shuffledWords) # <<>> THEN "search" ELSE "placed"
    /\ attempts' = 0
    /\ bestScore' = NegInfinity
    /\ bestPosition' = Null
    /\ bestDirection' = Null
    /\ earliestBest' = Null
    /\ UNCHANGED <<config, ret, held, written>>

\* a bug generate could have: the throw undoes the placements of the call
PlaceFailWithRollback ==
    /\ pc = "search"
    /\ attempts = maxAttempts
    /\ ~(bestPosition # Null /\ bestDirection # Null)
    /\ ret' = Ret("generate", Null, ErrCouldNotPlace, Some(word))
    /\ pc' = "idle"
    /\ NoLocals
    /\ grid' = createEmptyGrid(size)
    /\ positions' = EmptyMap
    /\ UNCHANGED <<config, held, written>>

\* placeWordWithBestFit returns false, line 220, and generate throws, line 40
PlaceFail ==
    /\ pc = "search"
    /\ attempts = maxAttempts
    /\ ~(bestPosition # Null /\ bestDirection # Null)
    /\ ret' = Ret("generate", Null, ErrCouldNotPlace, Some(word))
    /\ pc' = "idle"
    /\ NoLocals
    /\ UNCHANGED <<config, grid, positions, held, written>>

\* the empty cells of the grid g
EmptyCells(g) == { c \in (1..Len(g)) \X (1..Len(g)) : g[c[1]][c[2]] = "" }

\* a bug fillEmptySpaces could have: the last cell of each row is left out
fillEmptySpacesButLast(g, f) ==
    [x \in 1..Len(g) |-> [y \in 1..Len(g[x]) |->
        IF g[x][y] = "" /\ y < Len(g[x]) THEN f[<<x, y>>] ELSE g[x][y]]]

\* fillEmptySpaces with the letters f draws for the empty cells
fillEmptySpaces(g, f) ==
    [x \in 1..Len(g) |-> [y \in 1..Len(g[x]) |->
        IF g[x][y] = "" THEN f[<<x, y>>] ELSE g[x][y]]]

\* generate(), lines 44-48: the fill and the return of this.grid
GenerateEnd ==
    /\ pc = "placed"
    /\ IF fillBlanks
       THEN \E f \in [EmptyCells(grid) -> letters] : grid' = fillEmptySpaces(grid, f)
       ELSE grid' = grid
    /\ ret' = Ret("generate", Null, ErrNone, Null)
    /\ held' = ReturnOfGenerate
    /\ pc' = "idle"
    /\ NoLocals
    /\ UNCHANGED <<config, positions, written>>

(* ------------------------------ queries ------------------------------- *)

\* hasWord
hasWord(w) == toUpperCase(w) \in DOMAIN positions

\* getWordPositions: the list, or null
getWordPositions(w) ==
    IF toUpperCase(w) \in DOMAIN positions THEN Some(positions[toUpperCase(w)]) ELSE Null

\* getGridSize
getGridSize == Len(grid)

\* getGrid()
GetGrid ==
    /\ pc = "idle"
    /\ ret' = Ret("getGrid", Null, ErrNone, Null)
    /\ held' = ReturnOfGetGrid
    /\ UNCHANGED <<pc, config, grid, positions, locals, written>>

\* getPositions()
GetPositions ==
    /\ pc = "idle"
    /\ ret' = Ret("getPositions", Null, ErrNone, Null)
    /\ held' = ReturnOfGetPositions
    /\ UNCHANGED <<pc, config, grid, positions, locals, written>>

\* getWordPositions(w)
GetWordPositions ==
    /\ pc = "idle"
    /\ \E w \in Vocabulary :
          held' = IF getWordPositions(w) = Null THEN HeldNone
                  ELSE ReturnOfGetWordPositions(w)
    /\ ret' = Ret("getWordPositions", Null, ErrNone, Null)
    /\ UNCHANGED <<pc, config, grid, positions, locals, written>>

\* export()
Export ==
    /\ pc = "idle"
    /\ ret' = Ret("export", Null, ErrNone, Null)
    /\ held' = ReturnOfExport
    /\ UNCHANGED <<pc, config, grid, positions, locals, written>>

(* ------------------------------- import ------------------------------- *)

\* A value the caller passes as a grid: array says whether it is an array
\* (Array.isArray), rows are its elements; a row likewise, with its cells.
Row(cells) == [array |-> TRUE, cells |-> cells]
Grid(g) == [array |-> TRUE, rows |-> [x \in 1..Len(g) |-> Row(g[x])]]
NotAnArray == [array |-> FALSE, rows |-> <<>>]

\* A Map the caller passes as positions: the sequence of its entries
\* [word, positions], in the Map's order, no word twice.
Entries(m, order) == [i \in 1..Len(order) |-> [word |-> order[i], positions |-> m[order[i]]]]

\* new Map(positions)
MapOf(entries) ==
    [w \in { entries[i].word : i \in 1..Len(entries) } |->
        entries[CHOOSE i \in 1..Len(entries) : entries[i].word = w].positions]

\* a bug validateGrid could have: the lengths of the rows are not compared
validateGridRowCount(g) ==
    IF ~g.array \/ \E x \in 1..Len(g.rows) : ~g.rows[x].array
    THEN ErrGridFormat
    ELSE IF Len(g.rows) # size
    THEN ErrGridDimensions
    ELSE ErrNone

\* the error validateGrid throws
validateGrid(g) ==
    IF ~g.array \/ \E x \in 1..Len(g.rows) : ~g.rows[x].array
    THEN ErrGridFormat
    ELSE IF Len(g.rows) # size \/ \E x \in 1..Len(g.rows) : Len(g.rows[x].cells) # size
    THEN ErrGridDimensions
    ELSE ErrNone

\* word[index]: the character, or undefined past the end of the word
CharAt(w, index) == IF index < Len(w) THEN Some(w[index + 1]) ELSE Undefined

\* grid[pos.x][pos.y] for a row grid[pos.x] that exists: the cell, or
\* undefined outside the row
CellAt(g, pos) ==
    IF pos.y >= 0 /\ pos.y < Len(g.rows[pos.x + 1].cells)
    THEN Some(g.rows[pos.x + 1].cells[pos.y + 1])
    ELSE Undefined

\* import, line 119, for one position of one entry: grid[pos.x] is undefined
\* outside the grid and reading its [pos.y] throws a TypeError
checkPosition(g, w, pos, index) ==
    IF ~(pos.x >= 0 /\ pos.x < Len(g.rows)) THEN ErrTypeError
    ELSE IF CellAt(g, pos) # CharAt(w, index) THEN ErrMismatched
    ELSE ErrNone

\* import, lines 118-122, for one entry: the error of the first position
\* that throws
RECURSIVE checkEntry(_, _, _, _)
checkEntry(g, w, ps, index) ==
    IF index >= Len(ps) THEN ErrNone
    ELSE LET err == checkPosition(g, w, ps[index + 1], index)
         IN  IF err # ErrNone THEN err ELSE checkEntry(g, w, ps, index + 1)

\* import, lines 117-123: the error of the first entry that throws
RECURSIVE checkEntries(_, _)
checkEntries(g, entries) ==
    IF entries = <<>> THEN ErrNone
    ELSE LET err == checkEntry(g, Head(entries).word, Head(entries).positions, 0)
         IN  IF err # ErrNone THEN err ELSE checkEntries(g, Tail(entries))

\* the error import throws
importError(g, entries) ==
    LET err == validateGrid(g)
    IN  IF err # ErrNone THEN err ELSE checkEntries(g, entries)

\* a bug import could have: the grid is adopted before the entries are
\* checked
importResultGridFirst(g, entries) ==
    LET err == importError(g, entries)
    IN  IF validateGrid(g) = ErrNone
        THEN [err |-> err,
              size |-> Len(g.rows),
              grid |-> [x \in 1..Len(g.rows) |-> g.rows[x].cells],
              positions |-> IF err = ErrNone THEN MapOf(entries) ELSE positions]
        ELSE [err |-> err, size |-> size, grid |-> grid, positions |-> positions]

\* import: the error thrown, and the fields of the instance afterwards:
\* lines 125-127 when nothing was thrown, and as they were when something was
importResult(g, entries) ==
    LET err == importError(g, entries)
    IN  IF err = ErrNone
        THEN [err |-> err,
              size |-> Len(g.rows),
              grid |-> [x \in 1..Len(g.rows) |-> g.rows[x].cells],
              positions |-> MapOf(entries)]
        ELSE [err |-> err, size |-> size, grid |-> grid, positions |-> positions]

\* import({ grid, positions })
DoImport(g, entries) ==
    /\ pc = "idle"
    /\ LET r == importResult(g, entries)
       IN  /\ size' = r.size
           /\ grid' = r.grid
           /\ positions' = r.positions
           /\ ret' = Ret("import", Some([grid |-> g, positions |-> entries]), r.err, Null)
           /\ held' = IF r.err = ErrNone THEN HeldAfterImport ELSE HeldNone
           /\ written' = IF r.err = ErrNone THEN FALSE ELSE written
    /\ UNCHANGED <<pc, words, allowDiagonal, fillBlanks, locals>>

\* export(): the size, the copy of the grid, the copy of the Map
export == [size |-> getGridSize, grid |-> grid, positions |-> positions]

\* the orders in which a Map can hold the words of S
Orders(S) ==
    { o \in [1..Cardinality(S) -> S] : \A i, j \in 1..Cardinality(S) : o[i] = o[j] => i = j }

\* what export() returned, passed back as it is
Exported ==
    { [grid |-> Grid(export.grid), positions |-> Entries(export.positions, o)] :
        o \in Orders(DOMAIN export.positions) }

\* a full grid of the instance's size made by the caller: A in the first
\* column, B in the others
PatternGrid(n) == [x \in 1..n |-> [y \in 1..n |-> IF y = 1 THEN "A" ELSE "B"]]

\* the grid g with its last row one cell short
Truncated(g) == [g EXCEPT ![Len(g)] = SubSeq(@, 1, Len(@) - 1)]

\* the grid g without its last row
Shortened(g) == SubSeq(g, 1, Len(g) - 1)

\* a Map with one entry: the word at the listed cells
Entry(w, ps) == << [word |-> w, positions |-> ps] >>
P(x, y) == [x |-> x, y |-> y]

\* Grids and Maps made by the caller for an instance of the given size: a
\* Map that fits the grid, a grid with a short row, a grid with a row less, a grid that is no
\* array, a Map with a wrong letter, with a list shorter than its word, with
\* a list longer than its word, with a position below the grid
Supplied(n) ==
    { [grid |-> Grid(PatternGrid(n)), positions |-> Entry(<<"A", "B">>, <<P(0, 0), P(0, 1)>>)],
      [grid |-> Grid(Truncated(PatternGrid(n))), positions |-> Entry(<<"A", "B">>, <<P(0, 0), P(0, 1)>>)],
      [grid |-> Grid(Shortened(PatternGrid(n))), positions |-> <<>>],
      [grid |-> NotAnArray, positions |-> <<>>],
      [grid |-> Grid(PatternGrid(n)), positions |-> Entry(<<"B", "B">>, <<P(0, 0), P(0, 1)>>)],
      [grid |-> Grid(PatternGrid(n)), positions |-> Entry(<<"A", "B">>, <<P(0, 0)>>)],
      [grid |-> Grid(PatternGrid(n)), positions |-> Entry(<<"A">>, <<P(0, 0), P(0, n)>>)],
      [grid |-> Grid(PatternGrid(n)), positions |-> Entry(<<"A", "B">>, <<P(0, 0), P(n, 1)>>)] }

\* import(...) of a grid and a Map the caller made
Import == \E a \in Supplied(size) : DoImport(a.grid, a.positions)

\* import(...) of what export() returned
Reimport == \E a \in Exported : DoImport(a.grid, a.positions)

(* ------------------------ the caller's writes ------------------------- *)

\* the cell the caller writes in a grid it was handed, and what it writes
WrittenCell == [x |-> 0, y |-> 0]
WrittenLetter == "Q"

\* The caller writes returned[0][0] = 'Q' in the grid it holds; the write
\* reaches the instance when that grid is the instance's own.  The model
\* follows one write that reaches the instance until generate or import
\* replaces the objects of the instance.
WriteGrid ==
    /\ pc = "idle"
    /\ ~written
    /\ held.grid # "none"
    /\ grid' = IF held.grid = "live"
               THEN [grid EXCEPT ![WrittenCell.x + 1][WrittenCell.y + 1] = WrittenLetter]
               ELSE grid
    /\ ret' = Ret("write", Some("grid"), ErrNone, Null)
    /\ written' = (held.grid = "live")
    /\ held' = HeldNone
    /\ UNCHANGED <<pc, config, positions, locals>>

\* the position lists the caller holds
HeldLists ==
    IF held.lists = "none" THEN {}
    ELSE IF held.word # Null THEN {held.word[1]}
    ELSE DOMAIN positions

\* list.pop()
Pop(list) == SubSeq(list, 1, Len(list) - 1)

\* list[0].x = (list[0].x + 1) % size
Shift(list) == [list EXCEPT ![1] = [x |-> (list[1].x + 1) % size, y |-> list[1].y]]

\* The caller changes a position list it holds (list.pop()), or a Position in
\* it (list[0].x = (list[0].x + 1) % size); the change reaches the instance when the list is the
\* instance's own array.
WriteList ==
    /\ pc = "idle"
    /\ ~written
    /\ \E w \in HeldLists, how \in {"pop", "shift"} :
          /\ Len(positions[w]) >= 1
          /\ positions' =
                IF held.lists = "live"
                THEN [positions EXCEPT ![w] = IF how = "pop" THEN Pop(@) ELSE Shift(@)]
                ELSE positions
          /\ ret' = Ret("write", Some(how), ErrNone, Some(w))
    /\ written' = (held.lists = "live")
    /\ held' = HeldNone
    /\ UNCHANGED <<pc, config, grid, locals>>

\* The caller deletes a word from the Map it holds (map.delete(w)); the
\* change reaches the instance when the Map is the instance's own.
WriteMap ==
    /\ pc = "idle"
    /\ ~written
    /\ held.map # "none"
    /\ \E w \in DOMAIN positions :
          /\ positions' =
                IF held.map = "live"
                THEN [v \in (DOMAIN positions) \ {w} |-> positions[v]]
                ELSE positions
          /\ ret' = Ret("write", Some("map"), ErrNone, Some(w))
    /\ written' = (held.map = "live")
    /\ held' = HeldNone
    /\ UNCHANGED <<pc, config, grid, locals>>

(* --------------------------- specification ---------------------------- *)

\* the vocabulary, listed
Listed == << <<"A", "B">>, <<"a", "b">>, <<"B">>, <<"A", "!">> >>

\* The word lists of the instances that generate: generate() shuffles the
\* list, so each list is drawn in one order, the order of Listed; the
\* constructor alone is run on the lists in every order (WordLists).
ListsInOrder ==
    { [i \in 1..Len(f) |-> Listed[f[i]]] :
        f \in { g \in SeqsUpTo(1..Len(Listed), MaxWords) :
                  \A i \in 1..(Len(g) - 1) : g[i] <= g[i + 1] } }

\* the options the caller constructs with: an explicit size
Options ==
    [size : { Some(n) : n \in 0..MaxSize },
     words : ListsInOrder,
     allowDiagonal : {Some(TRUE), Some(FALSE)},
     fillBlanks : {Some(TRUE), Some(FALSE)}]

\* words longer than the model's grids: eleven letters, and ten in lower case
ElevenLetters == [i \in 1..11 |-> "A"]
TenLetters == [i \in 1..10 |-> "b"]

\* the word lists passed to the constructor alone: the short words and the
\* empty word, and lists of long words
WordLists ==
    SeqsUpTo(Vocabulary \cup {<<>>}, MaxWords) \cup SeqsUpTo({ElevenLetters, TenLetters}, MaxLongWords)

\* the options with any of size, allowDiagonal, fillBlanks left out
AnyOptions ==
    [size : { Some(n) : n \in (-1)..MaxSize } \cup {Undefined},
     words : WordLists,
     allowDiagonal : {Some(TRUE), Some(FALSE), Undefined},
     fillBlanks : {Some(TRUE), Some(FALSE), Undefined}]

\* new WordSearch(options) with an explicit size
Constructor == \E opts \in Options : Construct(opts)

Init ==
    /\ pc = "new"
    /\ size = 0
    /\ words = <<>>
    /\ allowDiagonal = FALSE
    /\ fillBlanks = FALSE
    /\ grid = <<>>
    /\ positions = EmptyMap
    /\ shuffledWords = <<>>
    /\ attempts = 0
    /\ bestScore = NegInfinity
    /\ bestPosition = Null
    /\ bestDirection = Null
    /\ earliestBest = Null
    /\ ret = Ret("none", Null, ErrNone, Null)
    /\ held = HeldNone
    /\ written = FALSE

Next ==
    \/ Constructor
    \/ GenerateBegin
    \/ Attempt
    \/ PlaceWord
    \/ PlaceFail
    \/ GenerateEnd
    \/ Import

Spec == Init /\ [][Next]_vars

\* construction alone, with any options
ConstructorAny == \E opts \in AnyOptions : Construct(opts)

SpecCtor == Init /\ [][ConstructorAny]_vars

\* the instance and a caller that keeps, writes and passes back what the
\* calls return
NextCaller ==
    \/ Next
    \/ Reimport
    \/ GetGrid
    \/ GetPositions
    \/ GetWordPositions
    \/ Export
    \/ WriteGrid
    \/ WriteList
    \/ WriteMap

SpecCaller == Init /\ [][NextCaller]_vars

\* the calls that change the instance, and export(), with no caller writes
NextCalls ==
    \/ Next
    \/ Reimport
    \/ Export

SpecCalls == Init /\ [][NextCalls]_vars

(* ------------------------------- claims ------------------------------- *)

\* the position pos is a cell of a grid of n rows of n cells
InGrid(pos, n) == pos.x >= 0 /\ pos.x < n /\ pos.y >= 0 /\ pos.y < n

\* the grid g has n rows of n cells
IsSquare(g, n) == Len(g) = n /\ \A x \in 1..Len(g) : Len(g[x]) = n

\* the positions ps, traced in the square grid g, spell the word w
Spells(g, w, ps) ==
    /\ Len(ps) = Len(w)
    /\ \A i \in 1..Len(ps) : InGrid(ps[i], Len(g)) /\ At(g, ps[i]) = w[i]

\* the cells of the position lists of the Map m
Covered(m) == UNION { { m[w][i] : i \in 1..Len(m[w]) } : w \in DOMAIN m }

\* generate() has returned and nothing was called since
AfterGenerate == pc = "idle" /\ ret.op = "generate" /\ ret.err = ErrNone

\* C1: after a successful generate() the grid has size rows of size cells
\* and every entry of the Map has one in-bounds position per letter of its
\* word, whose cell holds that letter.
C1_GeneratedGridSpellsWords ==
    AfterGenerate =>
        /\ IsSquare(grid, size)
        /\ \A w \in DOMAIN positions : Spells(grid, w, positions[w])

\* C1: a generate() has returned a grid with two words in it
C1_Witness ==
    /\ AfterGenerate
    /\ Cardinality(DOMAIN positions) = 2
    /\ \A w \in DOMAIN positions : Len(positions[w]) = Len(w)

\* the step in which placeWordWithBestFit inserts the word
CommitStep ==
    /\ pc = "search"
    /\ pc' \in {"search", "placed"}
    /\ shuffledWords' # shuffledWords

\* C2: the candidate generate() commits has every cell in the grid and
\* empty or holding the word's letter; the commit changes the letter of no
\* cell that holds one, and afterwards every word of the Map is still
\* spelled by its cells.
C2_CommitNeverOverwrites ==
    [][CommitStep =>
        /\ \A i \in 0..(Len(word) - 1) :
              LET pos == getNextPosition(bestPosition[1], i, bestDirection[1])
              IN  /\ InGrid(pos, size)
                  /\ At(grid, pos) \in {"", word[i + 1]}
        /\ \A x \in 1..size, y \in 1..size : grid[x][y] # "" => grid'[x][y] = grid[x][y]
        /\ \A w \in DOMAIN positions' : Spells(grid', w, positions'[w])]_vars

\* C2: two different words have been placed and share a cell
C2_Witness ==
    /\ pc = "placed"
    /\ \E v, w \in DOMAIN positions :
          /\ v # w
          /\ \E i \in 1..Len(positions[v]), j \in 1..Len(positions[w]) :
                positions[v][i] = positions[w][j]

\* the number of times the word w occurs in the list ws
Count(ws, w) == Cardinality({ i \in 1..Len(ws) : ws[i] = w })

\* C3: when the attempts for a word end with no feasible candidate,
\* generate() throws 'Could not place word' naming that word and hands no
\* grid to the caller; the grid and the Map stay as the earlier placements
\* of the call left them (the words placed earlier are in the Map, spelled
\* by their cells), no further word is attempted and nothing is filled.
C3_PlacementFailure ==
    [][(pc = "search" /\ attempts = maxAttempts /\ bestPosition = Null) =>
        /\ pc' = "idle"
        /\ ret' = Ret("generate", Null, ErrCouldNotPlace, Some(Head(shuffledWords)))
        /\ held' = HeldNone
        /\ grid' = grid
        /\ positions' = positions
        /\ shuffledWords' = <<>>
        /\ DOMAIN positions' =
              { w \in { words[i] : i \in 1..Len(words) } : Count(words, w) > Count(shuffledWords, w) }
        /\ \A w \in DOMAIN positions' : Spells(grid', w, positions'[w])]_vars

\* C3: generate() has thrown for a word after placing another word
C3_Witness ==
    /\ pc = "idle"
    /\ ret.op = "generate"
    /\ ret.err = ErrCouldNotPlace
    /\ \E w \in DOMAIN positions : Some(w) # ret.word /\ Spells(grid, w, positions[w])
    /\ fillBlanks
    /\ \E x \in 1..size, y \in 1..size : grid[x][y] = ""

\* C4: an import that throws leaves the grid, the Map and the size of the
\* instance as they were.
C4_FailedImportChangesNothing ==
    [][(ret'.op = "import" /\ ret'.err # ErrNone) =>
        /\ grid' = grid
        /\ positions' = positions
        /\ size' = size]_vars

\* C4: an import with a Map that does not match its grid has thrown on an
\* instance that holds a generated grid with a word in it
C4_Witness ==
    /\ pc = "idle"
    /\ ret.op = "import"
    /\ ret.err = ErrMismatched
    /\ DOMAIN positions # {}
    /\ \E x \in 1..size, y \in 1..size : grid[x][y] = "Z"

\* the entry e of a Map, traced in the grid g the caller passed, spells its
\* word
Reconstructs(g, e) ==
    /\ Len(e.positions) = Len(e.word)
    /\ \A i \in 1..Len(e.positions) :
          /\ InGrid(e.positions[i], Len(g.rows))
          /\ CellAt(g, e.positions[i]) = Some(e.word[i])

\* C5: import throws 'Grid contains mismatched word placements' for every
\* Map with an entry that, traced in the grid passed with it, does not spell
\* its word: a wrong letter, a position outside the grid, a list shorter or
\* longer than the word.
C5_MismatchRejected ==
    (/\ ret.op = "import"
     /\ validateGrid(ret.arg[1].grid) = ErrNone
     /\ \E i \in 1..Len(ret.arg[1].positions) :
           ~Reconstructs(ret.arg[1].grid, ret.arg[1].positions[i]))
    => ret.err = ErrMismatched

\* C6: a write of the caller into a value that getGrid(), getPositions() or
\* export() returned (a cell of a grid, an entry of a Map, a position list
\* or a Position in it) changes neither the grid nor the Map of the
\* instance, so what later queries return.
C6_QueriesReturnDeepCopies ==
    [][(ret'.op = "write" /\ held.from \in {"getGrid", "getPositions", "export"}) =>
        /\ grid' = grid
        /\ positions' = positions]_vars

\* C7: a write of the caller into a cell of the grid that generate()
\* returned does not change the grid of the instance.
C7_GenerateReturnsSnapshot ==
    [][(ret'.op = "write" /\ held.from = "generate") => grid' = grid]_vars

\* no word occurs twice in this.words (the words of the list, upper-cased)
NoRepeatedWord == \A i, j \in 1..Len(words) : words[i] = words[j] => i = j

\* every cell that is not a position of the Map is empty
UncoveredCellsEmpty ==
    \A x \in 1..Len(grid), y \in 1..Len(grid) :
        [x |-> x - 1, y |-> y - 1] \notin Covered(positions) => grid[x][y] = ""

\* C8, as claimed: after a successful generate() with fillBlanks false,
\* every cell that is not a position of the Map is empty, also when a word
\* occurs more than once in the list.
C8_UncoveredCellsEmpty == (AfterGenerate /\ ~fillBlanks) => UncoveredCellsEmpty

\* C8, amended: after a successful generate() with fillBlanks false, every
\* cell that is not a position of the Map is empty, when no word occurs more
\* than once in the list (compared without regard to case).
C8_UncoveredCellsEmptyNoRepeat ==
    (AfterGenerate /\ ~fillBlanks /\ NoRepeatedWord) => UncoveredCellsEmpty

\* C8: a generate() without fill has returned a grid with two different
\* words and a cell left empty
C8_Witness ==
    /\ AfterGenerate
    /\ ~fillBlanks
    /\ NoRepeatedWord
    /\ Len(words) = 2
    /\ \E x \in 1..size, y \in 1..size : grid[x][y] = ""
    /\ \E x \in 1..size, y \in 1..size : grid[x][y] # ""

\* C9: with fillBlanks true, the end of generate() leaves one letter of A-Z
\* in every cell, and changes no cell that held a letter after placement.
C9_FillCompletesGrid ==
    [][(pc = "placed" /\ fillBlanks) =>
        /\ pc' = "idle"
        /\ ret'.err = ErrNone
        /\ IsSquare(grid', size)
        /\ \A x \in 1..size, y \in 1..size :
              /\ grid'[x][y] \in AZ
              /\ grid[x][y] # "" => grid'[x][y] = grid[x][y]]_vars

\* C9: a generate() with fill has returned a grid with a placed word and a
\* filled cell
C9_Witness ==
    /\ AfterGenerate
    /\ fillBlanks
    /\ DOMAIN positions # {}
    /\ \E x \in 1..size, y \in 1..size :
          grid[x][y] = "Z" /\ [x |-> x - 1, y |-> y - 1] \notin Covered(positions)

\* C10: the constructor throws 'Words array cannot be empty' for an empty
\* word list, with or without a size; no instance has an empty word list.
C10_EmptyWordListRejected ==
    (ret.op = "constructor" /\ ret.arg[1].words = <<>>) =>
        (pc = "dead" /\ ret.err = ErrEmptyWords)

\* the word consists of letters only, at least one
OnlyLetters(w) == Len(w) >= 1 /\ \A k \in 1..Len(w) : w[k] \in {"A", "B", "Z", "a", "b", "z"}

\* C11: new WordSearch(options) with a non-empty word list constructs an
\* instance, with an empty grid and an empty Map, exactly when the size is
\* at least 1 and every word is no longer than the size and consists of
\* letters only; otherwise it throws the error of the size, or the error of
\* a too long word or of invalid characters naming such a word of the list,
\* and no grid and no Map is created.
C11_ConstructionValidation ==
    (ret.op = "constructor" /\ ret.arg[1].words # <<>>) =>
        LET ws == ret.arg[1].words
            Valid == /\ size >= 1
                     /\ \A i \in 1..Len(ws) : Len(ws[i]) <= size /\ OnlyLetters(ws[i])
        IN  /\ (pc = "idle") <=> Valid
            /\ pc = "idle" =>
                  /\ ret.err = ErrNone
                  /\ grid = [x \in 1..size |-> [y \in 1..size |-> ""]]
                  /\ positions = EmptyMap
            /\ pc # "idle" =>
                  /\ pc = "dead"
                  /\ grid = <<>>
                  /\ positions = EmptyMap
                  /\ ret.err \in {ErrSize, ErrTooLong, ErrInvalidChars}
                  /\ ret.err = ErrSize => size < 1
                  /\ ret.err = ErrTooLong =>
                        \E i \in 1..Len(ws) :
                            ret.word = Some(toUpperCase(ws[i])) /\ Len(ws[i]) > size
                  /\ ret.err = ErrInvalidChars =>
                        \E i \in 1..Len(ws) :
                            ret.word = Some(toUpperCase(ws[i])) /\ ~OnlyLetters(ws[i])

\* C11: the constructor has thrown for a word with a character that is not a
\* letter in a list whose other word is valid
C11_Witness ==
    /\ ret.op = "constructor"
    /\ pc = "dead"
    /\ ret.err = ErrInvalidChars
    /\ Len(ret.arg[1].words) = 2
    /\ \E i \in 1..2 : OnlyLetters(ret.arg[1].words[i])

\* the words the caller looks up: the words of the vocabulary, other
\* spellings of them, and words of the Maps the caller imports
LookupWords ==
    Vocabulary \cup { <<"A", "b">>, <<"a", "B">>, <<"b">>, <<"A">>, <<"B", "B">> }

\* the two words are the same but for the case of their letters
SameWord(a, b) ==
    /\ Len(a) = Len(b)
    /\ \A k \in 1..Len(a) :
          \/ a[k] = b[k]
          \/ {a[k], b[k]} \in { {"A", "a"}, {"B", "b"}, {"Z", "z"} }

\* the word c is, but for case, a word of the list of the instance
Configured(c) == \E i \in 1..Len(words) : SameWord(c, words[i])

\* C12: after a successful generate(), hasWord(c) is true exactly for the
\* words c that are, but for case, in the word list; for those,
\* getWordPositions(c) is the position list of the word, the same for every
\* spelling, and it traces the word in the grid; for any other word, also a
\* word of a Map imported before, getWordPositions(c) is null.
C12_LookupIsMembership ==
    AfterGenerate =>
        \A c \in LookupWords :
            /\ hasWord(c) <=> Configured(c)
            /\ Configured(c) =>
                  /\ getWordPositions(c) # Null
                  /\ \A d \in LookupWords :
                        SameWord(c, d) => getWordPositions(d) = getWordPositions(c)
                  /\ \E i \in 1..Len(words) :
                        SameWord(c, words[i]) /\ Spells(grid, words[i], getWordPositions(c)[1])
            /\ ~Configured(c) => getWordPositions(c) = Null

\* C12: generate() has returned for a list with the word ab only: the word
\* is found in another spelling and the word B, part of it, is not
C12_Witness ==
    /\ AfterGenerate
    /\ words = << <<"A", "B">> >>
    /\ hasWord(<<"a", "B">>)
    /\ getWordPositions(<<"A", "b">>) # Null
    /\ ~hasWord(<<"B">>)
    /\ getWordPositions(<<"B", "B">>) = Null

\* C13: import of the grid and the Map that export() returns, on the
\* instance that exported them, succeeds and leaves the grid and the Map of
\* the instance as they were.
C13_ExportImportRoundTrip ==
    [][(pc = "idle" /\ ret'.op = "import" /\ ret'.arg[1] \in Exported) =>
        /\ ret'.err = ErrNone
        /\ grid' = grid
        /\ positions' = positions]_vars

\* C14: import accepts a grid of arrays only when it has size rows of size
\* cells, and throws the error of the dimensions for any other; no call of
\* generate, import or export changes the size, and getGridSize() returns
\* the size the instance was constructed with.
C14_ImportKeepsSize ==
    [][/\ pc # "new" => size' = size
       /\ pc' = "idle" => getGridSize' = size'
       /\ (pc = "idle" /\ ret'.op = "import") =>
             LET g == ret'.arg[1].grid
                 IsArrays == g.array /\ \A x \in 1..Len(g.rows) : g.rows[x].array
                 Square == /\ Len(g.rows) = size
                           /\ \A x \in 1..Len(g.rows) : Len(g.rows[x].cells) = size
             IN  /\ ret'.err = ErrNone => IsArrays /\ Square
                 /\ (IsArrays /\ ~Square) => ret'.err = ErrGridDimensions]_vars

\* C14: import has thrown the error of the dimensions for a grid with the
\* right number of rows, on an instance that holds placed words
C14_Witness ==
    /\ pc = "idle"
    /\ ret.op = "import"
    /\ ret.err = ErrGridDimensions
    /\ Len(ret.arg[1].grid.rows) = size
    /\ DOMAIN positions # {}
    /\ getGridSize = size

\* the steps in x and in y from each position of the list to the next
Steps(ps) == { <<ps[i + 1].x - ps[i].x, ps[i + 1].y - ps[i].y>> : i \in 1..(Len(ps) - 1) }

\* C15: while generate() runs and after it, every entry of the Map has one
\* position for each letter of its word, in the order of the letters, each
\* one step from the one before in one direction: y + 1 (horizontal), x + 1
\* (vertical), or, only when allowDiagonal is set, both + 1 (diagonal).
C15_StraightRuns ==
    ret.op = "generate" =>
        \A w \in DOMAIN positions :
            LET ps == positions[w]
            IN  /\ Len(ps) = Len(w)
                /\ \A i \in 1..Len(ps) : InGrid(ps[i], size) /\ At(grid, ps[i]) = w[i]
                /\ \/ Steps(ps) \subseteq { <<0, 1>> }
                   \/ Steps(ps) \subseteq { <<1, 0>> }
                   \/ allowDiagonal /\ Steps(ps) \subseteq { <<1, 1>> }

\* C15: generate() has returned with a word placed diagonally
C15_Witness ==
    /\ AfterGenerate
    /\ allowDiagonal
    /\ \E w \in DOMAIN positions : Len(w) = 2 /\ Steps(positions[w]) = { <<1, 1>> }

\* the number of letters of all the words of the list ws
TotalLetters(ws) ==
    Cardinality(UNION { { <<i, k>> : k \in 1..Len(ws[i]) } : i \in 1..Len(ws) })

\* C16: with no size option, the size of the instance is the greater of 10
\* and the least n with 5 * n no less than the number of letters of all the
\* words; with a size option, also 0, the size is that option.
C16_ConfiguredSize ==
    ret.op = "constructor" =>
        LET options == ret.arg[1]
            T == TotalLetters(options.words)
        IN  IF options.size = Undefined
            THEN /\ size >= 10
                 /\ 5 * size >= T
                 /\ size > 10 => 5 * (size - 1) < T
            ELSE size = options.size[1]

\* C16: an instance was constructed with no size option and a size, derived
\* from its words, of more than 10
C16_Witness ==
    /\ ret.op = "constructor"
    /\ pc = "idle"
    /\ ret.arg[1].size = Undefined
    /\ size > 10
    /\ Len(grid) = size

\* the cells of the candidate c for the word w
CellsOf(c, w) ==
    [i \in 1..Len(w) |->
        CASE c.direction = "horizontal" -> [x |-> c.position.x, y |-> c.position.y + i - 1]
          [] c.direction = "vertical"   -> [x |-> c.position.x + i - 1, y |-> c.position.y]
          [] c.direction = "diagonal"   -> [x |-> c.position.x + i - 1, y |-> c.position.y + i - 1]]

\* C17: when the attempts for a word are over, generate() commits a
\* candidate exactly when one of the sampled candidates was feasible (also
\* one with score 0), and throws otherwise; the committed candidate is the
\* earliest sampled of the feasible candidates with the greatest score: its
\* cells are in the grid and empty or holding the word's letter, its score
\* is the number of its cells that are empty, and its cells become the
\* word's entry in the Map.
C17_BestFeasibleCommitted ==
    [][(pc = "search" /\ attempts = maxAttempts) =>
        IF earliestBest = Null
        THEN /\ ret'.err = ErrCouldNotPlace
             /\ pc' = "idle"
             /\ grid' = grid
             /\ positions' = positions
        ELSE LET c == earliestBest[1]
                 cells == CellsOf(c, word)
             IN  /\ pc' \in {"search", "placed"}
                 /\ \A i \in 1..Len(word) :
                        InGrid(cells[i], size) /\ At(grid, cells[i]) \in {"", word[i]}
                 /\ c.score = Cardinality({ i \in 1..Len(word) : At(grid, cells[i]) = "" })
                 /\ bestScore = c.score
                 /\ word \in DOMAIN positions'
                 /\ positions'[word] = cells
                 /\ \A i \in 1..Len(word) : At(grid', cells[i]) = word[i]]_vars

\* C17: the attempts for a word are over and the best of the sampled
\* candidates is feasible with score 0: all its cells hold letters
C17_Witness ==
    /\ pc = "search"
    /\ attempts = maxAttempts
    /\ earliestBest # Null
    /\ earliestBest[1].score = 0
    /\ bestPosition = Some(earliestBest[1].position)

\* C18: a generate() that throws 'Words array cannot be empty' leaves the
\* grid and the Map of the instance as they were before the call.
C18_EmptyListRejectedBeforeGridWork ==
    [][(pc = "idle" /\ ret'.op = "generate" /\ ret'.err = ErrEmptyWords) =>
        /\ grid' = grid
        /\ positions' = positions]_vars

\* the constructor was called with no size option and a list, not empty, of
\* words of letters only
DerivedSizeCase ==
    /\ ret.op = "constructor"
    /\ ret.arg[1].size = Undefined
    /\ ret.arg[1].words # <<>>
    /\ \A i \in 1..Len(ret.arg[1].words) : OnlyLetters(ret.arg[1].words[i])

\* C19, as claimed: with no size option and a list, not empty, of words of
\* letters only, the size is at least the length of the longest word and
\* the constructor does not throw the error of a too long word.
C19_DerivedSizeFitsWords ==
    DerivedSizeCase =>
        /\ \A i \in 1..Len(words) : Len(words[i]) <= size
        /\ ret.err # ErrTooLong

\* C19, amended: the same, for lists in which no word has more than 10
\* letters; then the constructor succeeds.
C19_DerivedSizeFitsShortWords ==
    (DerivedSizeCase /\ \A i \in 1..Len(ret.arg[1].words) : Len(ret.arg[1].words[i]) <= 10) =>
        /\ \A i \in 1..Len(words) : Len(words[i]) <= size
        /\ ret.err = ErrNone
        /\ pc = "idle"

\* C19: an instance was constructed with no size option from a list with a
\* word of 10 letters
C19_Witness ==
    /\ DerivedSizeCase
    /\ pc = "idle"
    /\ \E i \in 1..Len(words) : Len(words[i]) = 10
    /\ \A i \in 1..Len(words) : Len(words[i]) <= 10

====
